---- MODULE Spec2Model ----
(***************************************************************************)
(* CertiTrack: test validation and certificate lifecycle engine.           *)
(*                                                                         *)
(* The model follows backend/app: the route handlers of                    *)
(* api/routes/{assets,tests,certificates}.py, the numbering and validation *)
(* services of services/{certificate,test}_service.py and the derived      *)
(* properties of models/{asset,certificate,test}.py.                       *)
(*                                                                         *)
(* Dates are day numbers (0 is the first day of the model), a month bucket *)
(* is a run of MonthLen days.  Strings that the code builds are sequences  *)
(* of tokens, so that concatenation is sequence concatenation.             *)
(***************************************************************************)
EXTENDS Integers, Sequences, FiniteSets, TLC

\* ------------------------------------------------------------------ bounds
MaxAssets == 2
MaxCerts == 2
MaxReq == 2
MaxTests == 2
MaxTReq == 2
MaxTicks == 1
DayStep == 31
MonthLen == 30
MaxNotes == 4

\* ------------------------------------------------------- program constants
ValidityMin == 30
ValidityMax == 730
InspectionLead == 30
DefaultPercentage == 125

\* ------------------------------------------------------------ value spaces
NoDate == -1
NoId == 0
NoCompany == 0
Companies == {1, 2}
Requests == 1..MaxReq
TRequests == 1..MaxTReq

\* Optional[str]: None is the one-token sequence <<"None">>, "" is <<>>.
None == <<"None">>
Truthy(s) == s # None /\ s # <<>>
OrEmpty(s) == IF s = None THEN <<>> ELSE s

AssetCodes == {"A", "B"}
UserRoles == {"super_admin", "company_admin", "inspector", "viewer"}
Users ==
    { [role |-> "super_admin", company_id |-> NoCompany],
      [role |-> "inspector", company_id |-> 1],
      [role |-> "company_admin", company_id |-> 2],
      [role |-> "inspector", company_id |-> NoCompany],
      [role |-> "viewer", company_id |-> 1] }

CertificateStatus == {"draft", "issued", "expired", "revoked", "superseded"}

VARIABLES
    today,          \* date.today(), as a day number
    assets,         \* table assets, in insertion order; id = index
    certificates,   \* table certificates, in insertion order; id = index
    tests,          \* table tests, in insertion order; id = index
    greq,           \* the generate_certificate requests in flight
    treq,           \* the create_test / submit_test_results requests in flight
    resp            \* the last response returned by a read or a validation

vars == <<today, assets, certificates, tests, greq, treq, resp>>

\* ------------------------------------------------------------------ helpers
\* api/deps.py: require_roles(SUPER_ADMIN, COMPANY_ADMIN, INSPECTOR)
require_inspector(user) ==
    user.role \in {"super_admin", "company_admin", "inspector"}

\* the tenant check repeated in every handler:
\* role != SUPER_ADMIN and asset.company_id != current_user.company_id => 403
AccessDenied(user, asset) ==
    user.role # "super_admin" /\ asset.company_id # user.company_id

\* strftime("%Y%m") of the current day
MonthBucket(d) == d \div MonthLen

\* f"CERT-{bucket}-{n:05d}"
CertNumber(bucket, n) == <<"CERT", bucket, n>>

\* Certificate.certificate_number.like(f"CERT-{bucket}-%")
CertNumberLike(num, bucket) == num[1] = "CERT" /\ num[2] = bucket

\* services/certificate_service.py generate_certificate_number
generate_certificate_number(certs, d) ==
    LET bucket == MonthBucket(d)
        count == Cardinality({i \in DOMAIN certs :
                     CertNumberLike(certs[i].certificate_number, bucket)})
    IN  CertNumber(bucket, count + 1)

\* unique=True on certificates.certificate_number: the insert raises
UniqueViolation(certs, num) ==
    \E i \in DOMAIN certs : certs[i].certificate_number = num

\* the day of expiry itself counted as lapsed
is_valid_Strict(cert, d) == cert.status = "issued" /\ cert.expiry_date > d

\* models/certificate.py Certificate.is_valid
is_valid(cert, d) == cert.status = "issued" /\ cert.expiry_date >= d

\* models/certificate.py Certificate.days_until_expiry
days_until_expiry(cert, d) == cert.expiry_date - d

\* issue_date + timedelta(days=validity_days)
ExpiryDate(issue, days) == issue + days

\* the lead of the next inspection forgotten
NextInspectionDate_NoLead(expiry) == expiry

\* expiry_date - timedelta(days=30)
NextInspectionDate(expiry) == expiry - InspectionLead

\* the previous notes overwritten by the reason
RevokedNotes_Overwrite(notes, reason) == <<"\nRevoked: ">> \o reason

\* f"{certificate.notes or ''}\nRevoked: {reason}"
RevokedNotes(notes, reason) == OrEmpty(notes) \o <<"\nRevoked: ">> \o reason

\* What a query of another request returns while a handler is between two
\* flushes.  The session factory (app/database.py get_db) is not part of the
\* sources; the design document (4.3, 5) states that the source does not
\* guard issuance transactionally, so a flushed row is read by everybody.
ReadView(table) == table

\* What the store holds once a handler has raised after a flush.  The
\* session factory (app/database.py get_db) is not part of the sources; the
\* design document states that issuance is not guarded transactionally, so a
\* flushed row stays where it is.
get_db_on_error(table) == table

\* ------------------------------------------------------------------- state
IdleG ==
    [pc |-> "idle", outcome |-> "none", asset_id |-> NoId, test_id |-> NoId,
     validity_days |-> 0, notes |-> None, cert_number |-> <<>>,
     cert_id |-> NoId, attempts |-> 0]

IdleT ==
    [pc |-> "idle", outcome |-> "none", kind |-> "none", asset_id |-> NoId,
     test_number |-> <<>>, payload |-> <<>>]

NoResp == [kind |-> "none"]

Init ==
    /\ today = 0
    /\ assets = <<>>
    /\ certificates = <<>>
    /\ tests = <<>>
    /\ greq = [r \in Requests |-> IdleG]
    /\ treq = [r \in TRequests |-> IdleT]
    /\ resp = NoResp

\* the clock moves on
AdvanceClock ==
    /\ today < MaxTicks * DayStep
    /\ today' = today + DayStep
    /\ UNCHANGED <<assets, certificates, tests, greq, treq, resp>>


\* --------------------------------------------------------- asset handlers
Unset == -2
EditDay == 40
OptDates == {NoDate, EditDay}
Patch(l, n, e) ==
    [last_inspection_date |-> l, next_inspection_date |-> n,
     certificate_expiry_date |-> e]
AssetPatches ==
    {Patch(Unset, Unset, EditDay), Patch(Unset, Unset, NoDate),
     Patch(EditDay, EditDay, Unset)}

\* for field, value in update_data.items(): setattr(asset, field, value)
SetAttr(old, new) == IF new = Unset THEN old ELSE new

\* the soft-delete flag left out of the lookup
AssetExists_Deleted(id) == id \in DOMAIN assets

\* select(Asset).where(Asset.id == id, Asset.is_deleted == False)
AssetExists(id) == id \in DOMAIN assets /\ ~assets[id].is_deleted

\* api/routes/assets.py create_asset
create_asset(user, company_in, code, expiry) ==
    LET company_id == IF company_in # NoCompany THEN company_in
                      ELSE user.company_id
    IN  /\ Len(assets) < MaxAssets
        /\ require_inspector(user)
        /\ company_id # NoCompany
        /\ ~\E i \in DOMAIN assets :
                /\ assets[i].company_id = company_id
                /\ assets[i].asset_code = code
                /\ ~assets[i].is_deleted
        /\ assets' = Append(assets,
              [company_id |-> company_id, asset_code |-> code,
               is_deleted |-> FALSE,
               certificate_expiry_date |-> expiry,
               last_inspection_date |-> NoDate,
               next_inspection_date |-> NoDate])
        /\ UNCHANGED <<today, certificates, tests, greq, treq, resp>>

\* api/routes/assets.py update_asset
update_asset(user, id, patch) ==
    /\ require_inspector(user)
    /\ AssetExists(id)
    /\ ~AccessDenied(user, assets[id])
    /\ assets' = [assets EXCEPT
          ![id].last_inspection_date =
              SetAttr(@, patch.last_inspection_date),
          ![id].next_inspection_date =
              SetAttr(@, patch.next_inspection_date),
          ![id].certificate_expiry_date =
              SetAttr(@, patch.certificate_expiry_date)]
    /\ UNCHANGED <<today, certificates, tests, greq, treq, resp>>

\* api/routes/assets.py delete_asset (soft delete)
delete_asset(user, id) ==
    /\ require_inspector(user)
    /\ AssetExists(id)
    /\ ~AccessDenied(user, assets[id])
    /\ assets' = [assets EXCEPT ![id].is_deleted = TRUE]
    /\ UNCHANGED <<today, certificates, tests, greq, treq, resp>>

\* ---------------------------------------------------- generate_certificate
ValidityDays == {ValidityMin, ValidityMax}
NoteTexts == {None, <<"n">>}
InFlight == {r \in Requests : greq[r].pc = "numbered"}

GFail(r, why) ==
    /\ greq' = [greq EXCEPT ![r] = [IdleG EXCEPT !.outcome = why]]
    /\ UNCHANGED <<today, assets, certificates, tests, treq, resp>>

\* api/routes/certificates.py generate_certificate, lines 94-132: the
\* lookups and the count query of generate_certificate_number
gc_start(r, user, asset_id, test_id, days, notes) ==
    /\ greq[r].pc = "idle"
    /\ Len(certificates) + Cardinality(InFlight) < MaxCerts
    /\ IF ~require_inspector(user) THEN GFail(r, "forbidden")
       ELSE IF ~AssetExists(asset_id) THEN GFail(r, "not_found")
       ELSE IF AccessDenied(user, assets[asset_id]) THEN GFail(r, "forbidden")
       ELSE IF test_id # NoId /\ test_id \notin DOMAIN tests
            THEN GFail(r, "not_found")
       ELSE /\ greq' = [greq EXCEPT ![r] =
                  [pc |-> "numbered", outcome |-> "none",
                   asset_id |-> asset_id, test_id |-> test_id,
                   validity_days |-> days, notes |-> notes,
                   cert_number |->
                       generate_certificate_number(ReadView(certificates),
                                                   today),
                   cert_id |-> NoId, attempts |-> 1]]
            /\ UNCHANGED <<today, assets, certificates, tests, treq, resp>>

\* the row stored with the column default instead of an explicit status
gc_insert_Draft(r) ==
    /\ greq[r].pc = "numbered"
    /\ IF UniqueViolation(ReadView(certificates), greq[r].cert_number)
       THEN /\ greq' = [greq EXCEPT ![r] =
                  [IdleG EXCEPT !.outcome = "conflict",
                                !.attempts = greq[r].attempts]]
            /\ certificates' = get_db_on_error(certificates)
       ELSE /\ certificates' = Append(certificates,
                  [asset_id |-> greq[r].asset_id,
                   certificate_number |-> greq[r].cert_number,
                   issue_date |-> today,
                   expiry_date |-> ExpiryDate(today, greq[r].validity_days),
                   status |-> "draft",
                   test_id |-> greq[r].test_id,
                   pdf_url |-> None,
                   notes |-> greq[r].notes,
                   asset_updated |-> FALSE])
            /\ greq' = [greq EXCEPT ![r].pc = "inserted",
                                    ![r].cert_id = Len(certificates) + 1]
    /\ UNCHANGED <<today, assets, tests, treq, resp>>

\* lines 134-155: the dates, the Certificate row, db.add and db.flush.  A
\* number that is already stored violates the unique constraint; the
\* exception is not caught, so the request ends there.
gc_insert(r) ==
    /\ greq[r].pc = "numbered"
    /\ IF UniqueViolation(ReadView(certificates), greq[r].cert_number)
       THEN /\ greq' = [greq EXCEPT ![r] =
                  [IdleG EXCEPT !.outcome = "conflict",
                                !.attempts = greq[r].attempts]]
            /\ certificates' = get_db_on_error(certificates)
       ELSE /\ certificates' = Append(certificates,
                  [asset_id |-> greq[r].asset_id,
                   certificate_number |-> greq[r].cert_number,
                   issue_date |-> today,
                   expiry_date |-> ExpiryDate(today, greq[r].validity_days),
                   status |-> "issued",
                   test_id |-> greq[r].test_id,
                   pdf_url |-> None,
                   notes |-> greq[r].notes,
                   asset_updated |-> FALSE])
            /\ greq' = [greq EXCEPT ![r].pc = "inserted",
                                    ![r].cert_id = Len(certificates) + 1]
    /\ UNCHANGED <<today, assets, tests, treq, resp>>

\* lines 157-173: the document is rendered, then pdf_url and the asset's
\* three dates are flushed together.  asset_updated is a history field: it
\* records that this call has applied its asset update.
gc_finish(r) ==
    LET id == greq[r].cert_id
        c == certificates[id]
    IN  /\ greq[r].pc = "inserted"
        /\ certificates' = [certificates EXCEPT
              ![id].pdf_url = <<"pdf">>,
              ![id].asset_updated = TRUE]
        /\ assets' = [assets EXCEPT
              ![c.asset_id].certificate_expiry_date = c.expiry_date,
              ![c.asset_id].last_inspection_date = c.issue_date,
              ![c.asset_id].next_inspection_date =
                  NextInspectionDate(c.expiry_date)]
        /\ greq' = [greq EXCEPT ![r] =
              [IdleG EXCEPT !.outcome = "ok", !.cert_id = id]]
        /\ UNCHANGED <<today, tests, treq, resp>>

\* line 158: generate_certificate_pdf raises (no try/except around it)
gc_render_fail(r) ==
    /\ greq[r].pc = "inserted"
    /\ certificates' = get_db_on_error(certificates)
    /\ greq' = [greq EXCEPT ![r] =
          [IdleG EXCEPT !.outcome = "render_failed",
                        !.cert_id = greq[r].cert_id]]
    /\ UNCHANGED <<today, assets, tests, treq, resp>>

\* ------------------------------------------------------ revoke_certificate
Reasons == {None, <<>>, <<"crack">>}

\* a revocation that also clears the asset's certificate dates
revoke_certificate_ClearsAsset(user, id, reason) ==
    /\ require_inspector(user)
    /\ id \in DOMAIN certificates
    /\ ~AccessDenied(user, assets[certificates[id].asset_id])
    /\ certificates' = [certificates EXCEPT ![id].status = "revoked"]
    /\ assets' = [assets EXCEPT
          ![certificates[id].asset_id].certificate_expiry_date = NoDate,
          ![certificates[id].asset_id].next_inspection_date = NoDate]
    /\ UNCHANGED <<today, tests, greq, treq, resp>>

\* api/routes/certificates.py revoke_certificate
revoke_certificate(user, id, reason) ==
    /\ require_inspector(user)
    /\ id \in DOMAIN certificates
    /\ ~AccessDenied(user, assets[certificates[id].asset_id])
    /\ Truthy(reason) =>
          Len(RevokedNotes(certificates[id].notes, reason)) <= MaxNotes
    /\ certificates' = [certificates EXCEPT
          ![id].status = "revoked",
          ![id].notes = IF Truthy(reason) THEN RevokedNotes(@, reason)
                        ELSE @]
    /\ UNCHANGED <<today, assets, tests, greq, treq, resp>>

\* ------------------------------------------------------- certificate reads
\* verify_certificate takes no current_user
Anonymous == [role |-> "anonymous", company_id |-> NoCompany]

\* the rows of a result set, newest first (order_by created_at desc)
RECURSIVE DescSeq(_)
DescSeq(S) ==
    IF S = {} THEN <<>>
    ELSE LET m == CHOOSE x \in S : \A y \in S : y <= x
         IN  <<m>> \o DescSeq(S \ {m})

Response(kind, user, code, items) ==
    [kind |-> kind, caller |-> user, as_of |-> today, code |-> code,
     items |-> items]

\* CertificateResponse.model_validate(cert), then is_valid and
\* days_until_expiry are copied from the model's properties
CertificateResponse(id) ==
    [id |-> id,
     asset_id |-> certificates[id].asset_id,
     status |-> certificates[id].status,
     is_valid |-> is_valid(certificates[id], today),
     days_until_expiry |-> days_until_expiry(certificates[id], today)]

\* api/routes/certificates.py get_certificate
get_certificate(user, id) ==
    /\ resp' =
          IF id \notin DOMAIN certificates
          THEN Response("get_certificate", user, 404, <<>>)
          ELSE IF AccessDenied(user, assets[certificates[id].asset_id])
          THEN Response("get_certificate", user, 403, <<>>)
          ELSE Response("get_certificate", user, 200,
                        <<CertificateResponse(id)>>)
    /\ UNCHANGED <<today, assets, certificates, tests, greq, treq>>

\* the window of the expiring_soon filter of list_certificates
SoonDays == 30

\* api/routes/certificates.py list_certificates.  asset_id NoId and status
\* None are the absent filters; the first page holds every row of the model.
list_certificates(user, asset_id, status, expiring_soon) ==
    LET rows == {i \in DOMAIN certificates :
            /\ (user.role # "super_admin" /\ user.company_id # NoCompany) =>
                   assets[certificates[i].asset_id].company_id
                       = user.company_id
            /\ asset_id # NoId => certificates[i].asset_id = asset_id
            /\ status # "None" => certificates[i].status = status
            /\ expiring_soon =>
                   /\ certificates[i].expiry_date <= today + SoonDays
                   /\ certificates[i].expiry_date >= today
                   /\ certificates[i].status = "issued"}
        ids == DescSeq(rows)
    IN  /\ resp' = Response("list_certificates", user, 200,
                     [k \in DOMAIN ids |-> CertificateResponse(ids[k])])
        /\ UNCHANGED <<today, assets, certificates, tests, greq, treq>>

\* api/routes/certificates.py verify_certificate (no authentication)
verify_certificate(number) ==
    LET found == {i \in DOMAIN certificates :
                     certificates[i].certificate_number = number}
    IN  /\ resp' =
              IF found = {}
              THEN Response("verify_certificate", Anonymous, 200, <<>>)
              ELSE LET id == CHOOSE i \in found : TRUE
                       valid == is_valid(certificates[id], today)
                   IN  Response("verify_certificate", Anonymous, 200,
                           <<[id |-> id,
                              asset_id |-> certificates[id].asset_id,
                              status |-> certificates[id].status,
                              is_valid |-> valid,
                              days_until_expiry |->
                                  IF valid
                                  THEN days_until_expiry(certificates[id],
                                                         today)
                                  ELSE 0]>>)
        /\ UNCHANGED <<today, assets, certificates, tests, greq, treq>>

\* ------------------------------------------------------------- expiry scan
\* settings.alert_days_before_expiry
AlertDays == 30

\* send_daily_alerts runs the scan as a scheduled job, not for a user
System == [role |-> "system", company_id |-> NoCompany]

\* the far end of the window left out
ExpiringWindow_Exclusive(expiry, d) ==
    expiry # NoDate /\ expiry < d + AlertDays /\ expiry >= d

\* certificate_expiry_date <= alert_date and >= date.today(); a NULL date
\* satisfies no comparison
ExpiringWindow(expiry, d) ==
    expiry # NoDate /\ expiry <= d + AlertDays /\ expiry >= d

\* services/notification_service.py check_expiring_certificates: the alerts
\* are kept as a set, the query has no order
check_expiring_certificates ==
    LET expiring == {i \in DOMAIN assets :
            /\ ~assets[i].is_deleted
            /\ ExpiringWindow(assets[i].certificate_expiry_date, today)}
    IN  /\ resp' = Response("check_expiring_certificates", System, 200,
              {[asset |-> i,
                days_remaining |-> assets[i].certificate_expiry_date - today,
                company_id |-> assets[i].company_id] : i \in expiring})
        /\ UNCHANGED <<today, assets, certificates, tests, greq, treq>>

\* ------------------------------------------------------- result validation
\* Loads are in tenths of the load unit, measured percentages in hundredths
\* of a percent; a missing number (None) is NoNum.
NoNum == -1
DefaultMaxDeformation == 25
DefaultAccuracyTolerance == 50
LoadTolerance == 95
ConditionalThreshold == 75

\* x or default, for a number: None and 0 are falsy
OrNum(x, default) == IF x = NoNum \/ x = 0 THEN default ELSE x

\* str.strip() on a token string: blanks are the tokens " "
RECURSIVE LStrip(_)
LStrip(s) == IF s # <<>> /\ Head(s) = " " THEN LStrip(Tail(s)) ELSE s
RECURSIVE RStrip(_)
RStrip(s) ==
    IF s # <<>> /\ s[Len(s)] = " " THEN RStrip(SubSeq(s, 1, Len(s) - 1))
    ELSE s
Strip(s) == RStrip(LStrip(s))

Has(measured, key) == key \in DOMAIN measured

\* the proof-load percentage forgotten: the load compared with the SWL
load_check_NoPercentage(test) ==
    LET swl == OrNum(test.safe_working_load, 0)
        test_load == OrNum(test.test_load, 0)
    IN  IF test_load * 100 >= swl * LoadTolerance THEN "pass" ELSE "fail"

\* services/test_service.py validate_test_result, check 1
load_check(test) ==
    LET swl == OrNum(test.safe_working_load, 0)
        test_load == OrNum(test.test_load, 0)
        pct == OrNum(test.test_load_percentage, DefaultPercentage)
    IN  \* test_load >= swl * pct / 100 * 0.95
        IF test_load * 100 * 100 >= swl * pct * LoadTolerance
        THEN "pass" ELSE "fail"

\* check 2
deflection_check(m) ==
    IF ~Has(m, "max_deflection") \/ m["deflection"] <= m["max_deflection"]
    THEN "pass" ELSE "fail"

\* the defects text taken as it is, blanks included
visual_check_NoStrip(test) ==
    IF Truthy(test.defects_found) THEN "conditional" ELSE "pass"

\* check 3
visual_check(test) ==
    IF Truthy(test.defects_found) /\ Len(Strip(test.defects_found)) > 0
    THEN "conditional" ELSE "pass"

\* check 4
deformation_check(m) ==
    LET max_deformation ==
            IF Has(m, "max_permanent_deformation")
            THEN m["max_permanent_deformation"] ELSE DefaultMaxDeformation
    IN  IF m["permanent_deformation"] <= max_deformation
        THEN "pass" ELSE "fail"

\* check 5
brake_check(m) == IF m["brake_test"] THEN "pass" ELSE "fail"

\* check 6
accuracy_check(m) ==
    LET tolerance ==
            IF Has(m, "accuracy_tolerance")
            THEN m["accuracy_tolerance"] ELSE DefaultAccuracyTolerance
    IN  IF m["indicator_accuracy"] <= tolerance THEN "pass" ELSE "fail"

\* the brake check run for every test: a missing brake_test key is a failure
ValidationDetails_BrakeRequired(test) ==
    LET m == test.measured_values
        ran == {"load_check", "visual_check", "brake_check"}
               \cup (IF Has(m, "deflection")
                     THEN {"deflection_check"} ELSE {})
               \cup (IF Has(m, "permanent_deformation")
                     THEN {"deformation_check"} ELSE {})
               \cup (IF Has(m, "indicator_accuracy")
                     THEN {"accuracy_check"} ELSE {})
    IN  [check \in ran |->
            CASE check = "load_check" -> load_check(test)
              [] check = "visual_check" -> visual_check(test)
              [] check = "deflection_check" -> deflection_check(m)
              [] check = "deformation_check" -> deformation_check(m)
              [] check = "brake_check" ->
                    IF Has(m, "brake_test") THEN brake_check(m) ELSE "fail"
              [] check = "accuracy_check" -> accuracy_check(m)]

\* the details dict: one entry per check that ran
ValidationDetails(test) ==
    LET m == test.measured_values
        ran == {"load_check", "visual_check"}
               \cup (IF Has(m, "deflection")
                     THEN {"deflection_check"} ELSE {})
               \cup (IF Has(m, "permanent_deformation")
                     THEN {"deformation_check"} ELSE {})
               \cup (IF Has(m, "brake_test") THEN {"brake_check"} ELSE {})
               \cup (IF Has(m, "indicator_accuracy")
                     THEN {"accuracy_check"} ELSE {})
    IN  [check \in ran |->
            CASE check = "load_check" -> load_check(test)
              [] check = "visual_check" -> visual_check(test)
              [] check = "deflection_check" -> deflection_check(m)
              [] check = "deformation_check" -> deformation_check(m)
              [] check = "brake_check" -> brake_check(m)
              [] check = "accuracy_check" -> accuracy_check(m)]

CriticalChecks == {"load_check", "brake_check", "deformation_check"}

\* CONDITIONAL granted on the percentage alone, a failed check or not
validate_test_result_PercentageOnly(test) ==
    LET details == ValidationDetails(test)
        total_checks == Cardinality(DOMAIN details)
        checks_passed ==
            Cardinality({c \in DOMAIN details : details[c] = "pass"})
        by_percentage ==
            IF checks_passed = total_checks THEN "pass"
            ELSE IF checks_passed * 100 >= ConditionalThreshold * total_checks
                 THEN "conditional"
            ELSE "fail"
        result ==
            IF \E c \in CriticalChecks \cap DOMAIN details :
                   details[c] = "fail"
            THEN "fail" ELSE by_percentage
    IN  [result |-> result, details |-> details,
         checks_passed |-> checks_passed, total_checks |-> total_checks]

\* services/test_service.py validate_test_result
validate_test_result(test) ==
    LET details == ValidationDetails(test)
        total_checks == Cardinality(DOMAIN details)
        checks_passed ==
            Cardinality({c \in DOMAIN details : details[c] = "pass"})
        by_percentage ==
            IF checks_passed = total_checks THEN "pass"
            ELSE IF /\ checks_passed * 100 >= ConditionalThreshold * total_checks
                    /\ ~\E c \in DOMAIN details : details[c] = "fail"
                 THEN "conditional"
            ELSE "fail"
        result ==
            IF \E c \in CriticalChecks \cap DOMAIN details :
                   details[c] = "fail"
            THEN "fail" ELSE by_percentage
    IN  [result |-> result, details |-> details,
         checks_passed |-> checks_passed, total_checks |-> total_checks]

\* ------------------------------------------------------------ test handlers
NoMeasurements == [k \in {} |-> 0]

\* submitted results: safe working load 10.0 with a passing load, a short
\* load, and a passing load with a defect noted
TestPayloads ==
    { [safe_working_load |-> 100, test_load |-> 126,
       measured_values |-> NoMeasurements, defects_found |-> None],
      [safe_working_load |-> 100, test_load |-> 110,
       measured_values |-> NoMeasurements, defects_found |-> None],
      [safe_working_load |-> 100, test_load |-> 126,
       measured_values |-> NoMeasurements, defects_found |-> <<"rust">>] }

PassingPayload ==
    [safe_working_load |-> 100, test_load |-> 126,
     measured_values |-> NoMeasurements, defects_found |-> None]

\* strftime("%Y%m%d") of the current day
DayBucket(d) == d

\* f"TST-{bucket}-{n:04d}"
TestNumber(bucket, n) == <<"TST", bucket, n>>

\* Test.test_number.like(f"TST-{bucket}-%")
TestNumberLike(num, bucket) == num[1] = "TST" /\ num[2] = bucket

\* services/test_service.py generate_test_number
generate_test_number(rows, d) ==
    LET bucket == DayBucket(d)
        count == Cardinality({i \in DOMAIN rows :
                     TestNumberLike(rows[i].test_number, bucket)})
    IN  TestNumber(bucket, count + 1)

\* f"CT-{asset.id}"
qr_data(id) == <<"CT-", id>>

TInFlight == {r \in TRequests : treq[r].pc = "numbered"}

TFail(r, why) ==
    /\ treq' = [treq EXCEPT ![r] = [IdleT EXCEPT !.outcome = why]]
    /\ UNCHANGED <<today, assets, certificates, tests, greq, resp>>

TNumbered(r, kind, asset_id, payload) ==
    /\ treq' = [treq EXCEPT ![r] =
          [pc |-> "numbered", outcome |-> "none", kind |-> kind,
           asset_id |-> asset_id,
           test_number |-> generate_test_number(ReadView(tests), today),
           payload |-> payload]]
    /\ UNCHANGED <<today, assets, certificates, tests, greq, resp>>

\* api/routes/tests.py create_test, lines 72-97: the asset lookup and the
\* count query of generate_test_number
create_test_start(r, user, asset_id, payload) ==
    /\ treq[r].pc = "idle"
    /\ Len(tests) + Cardinality(TInFlight) < MaxTests
    /\ IF ~require_inspector(user) THEN TFail(r, "forbidden")
       ELSE IF ~AssetExists(asset_id) THEN TFail(r, "not_found")
       ELSE IF AccessDenied(user, assets[asset_id]) THEN TFail(r, "forbidden")
       ELSE TNumbered(r, "create", asset_id, payload)

\* api/routes/tests.py submit_test_results, lines 132-177: the asset is taken
\* from the QR data when it resolves, else from asset_id
submit_test_results_start(r, user, asset_in, qr, payload) ==
    LET scanned == {i \in DOMAIN assets :
                       ~assets[i].is_deleted /\ qr_data(i) = qr}
        asset_id == IF Truthy(qr) /\ scanned # {}
                    THEN CHOOSE i \in scanned : TRUE ELSE asset_in
    IN  /\ treq[r].pc = "idle"
        /\ Len(tests) + Cardinality(TInFlight) < MaxTests
        /\ IF ~require_inspector(user) THEN TFail(r, "forbidden")
           ELSE IF asset_id = NoId THEN TFail(r, "bad_request")
           ELSE IF ~AssetExists(asset_id) THEN TFail(r, "not_found")
           ELSE IF AccessDenied(user, assets[asset_id])
                THEN TFail(r, "forbidden")
           ELSE TNumbered(r, "submit", asset_id, payload)

\* create_test, lines 99-119: the scheduled, pending Test row
create_test_insert(r) ==
    LET p == treq[r].payload
    IN  /\ treq[r].pc = "numbered"
        /\ treq[r].kind = "create"
        /\ tests' = Append(tests,
              [test_number |-> treq[r].test_number,
               asset_id |-> treq[r].asset_id,
               status |-> "scheduled", result |-> "pending",
               is_validated |-> FALSE,
               safe_working_load |-> p.safe_working_load,
               test_load |-> p.test_load,
               test_load_percentage |-> DefaultPercentage,
               measured_values |-> NoMeasurements,
               defects_found |-> None])
        /\ treq' = [treq EXCEPT ![r] = [IdleT EXCEPT !.outcome = "ok"]]
        /\ UNCHANGED <<today, assets, certificates, greq, resp>>

\* submit_test_results, lines 179-225: the completed Test row with the
\* verdict of validate_test_result, then the asset's last inspection date
submit_test_results_insert(r) ==
    LET p == treq[r].payload
        test == [test_number |-> treq[r].test_number,
                 asset_id |-> treq[r].asset_id,
                 status |-> "completed", result |-> "pending",
                 is_validated |-> FALSE,
                 safe_working_load |-> p.safe_working_load,
                 test_load |-> p.test_load,
                 test_load_percentage |-> NoNum,
                 measured_values |-> p.measured_values,
                 defects_found |-> p.defects_found]
    IN  /\ treq[r].pc = "numbered"
        /\ treq[r].kind = "submit"
        /\ tests' = Append(tests,
              [test EXCEPT !.result = validate_test_result(test).result,
                           !.is_validated = TRUE])
        /\ assets' = [assets EXCEPT
              ![treq[r].asset_id].last_inspection_date = today]
        /\ treq' = [treq EXCEPT ![r] = [IdleT EXCEPT !.outcome = "ok"]]
        /\ UNCHANGED <<today, certificates, greq, resp>>

TestStatus == {"scheduled", "in_progress", "completed", "cancelled"}
TestResult == {"pending", "pass", "fail", "conditional"}

\* test_data.model_dump(exclude_unset=True): the fields that the request
\* sets, as a function from their names
TestPatches ==
    {[status |-> st] : st \in TestStatus} \cup {[result |-> "pass"]}

\* for field, value in update_data.items(): setattr(test, field, value)
SetFields(row, update_data) ==
    [f \in DOMAIN row |->
        IF f \in DOMAIN update_data THEN update_data[f] ELSE row[f]]

\* api/routes/tests.py update_test
update_test(user, id, test_data) ==
    /\ require_inspector(user)
    /\ id \in DOMAIN tests
    /\ ~AccessDenied(user, assets[tests[id].asset_id])
    /\ tests' = [tests EXCEPT ![id] = SetFields(@, test_data)]
    /\ UNCHANGED <<today, assets, certificates, greq, treq, resp>>

\* TestValidation(test_id, result, is_pass, validation_details)
TestValidation(id, validation_result) ==
    [test_id |-> id,
     result |-> validation_result.result,
     is_pass |-> validation_result.result = "pass",
     validation_details |-> validation_result.details]

\* api/routes/tests.py validate_test
validate_test(user, id) ==
    /\ require_inspector(user)
    /\ id \in DOMAIN tests
    /\ ~AccessDenied(user, assets[tests[id].asset_id])
    /\ LET validation_result == validate_test_result(tests[id])
       IN  /\ tests' = [tests EXCEPT
                 ![id].result = validation_result.result,
                 ![id].is_validated = TRUE]
           /\ resp' = Response("validate_test", user, 200,
                         <<TestValidation(id, validation_result)>>)
    /\ UNCHANGED <<today, assets, certificates, greq, treq>>

\* ------------------------------------------------------------- QR short code
\* Short codes as strings of characters.  An asset id is str(uuid): lower-case
\* hexadecimal digits and dashes; a scanned string may hold any character.
MaxQrLen == 6
MaxIdLen == 3
IdChars == {"a", "-"}
QrChars == IdChars \cup {"C", "T"}
StringsOver(chars, n) == UNION {[1..k -> chars] : k \in 0..n}
AssetIds == StringsOver(IdChars, MaxIdLen)
Prefix == <<"C", "T", "-">>

\* api/routes/assets.py create_asset: qr_data = f"CT-{asset.id}"
encode_qr_data(id) == Prefix \o id

\* str.startswith
StartsWith(s, p) == Len(s) >= Len(p) /\ SubSeq(s, 1, Len(p)) = p

\* str.replace(old, ""): every occurrence of old is removed, left to right
RECURSIVE Remove(_, _)
Remove(s, old) ==
    IF s = <<>> THEN <<>>
    ELSE IF StartsWith(s, old)
         THEN Remove(SubSeq(s, Len(old) + 1, Len(s)), old)
    ELSE <<Head(s)>> \o Remove(Tail(s), old)

\* any string taken as a short code
decode_qr_data_NoPrefixCheck(text) ==
    [valid |-> TRUE, asset_id |-> Remove(text, Prefix)]

\* services/qr_service.py decode_qr_data
decode_qr_data(text) ==
    IF ~StartsWith(text, Prefix)
    THEN [valid |-> FALSE, asset_id |-> <<>>]
    ELSE [valid |-> TRUE, asset_id |-> Remove(text, Prefix)]

\* a scanned string is decoded
scan_qr ==
    /\ resp.kind = "input"
    /\ resp' = [kind |-> "decode_qr_data", qr_data |-> resp.text,
                decoded |-> decode_qr_data(resp.text)]
    /\ UNCHANGED <<today, assets, certificates, tests, greq, treq>>

\* the short code of an asset id is built, then decoded
encode_then_decode ==
    /\ resp.kind = "input"
    /\ resp.text \in AssetIds
    /\ resp' = [kind |-> "round_trip", asset_id |-> resp.text,
                qr_data |-> encode_qr_data(resp.text),
                decoded |-> decode_qr_data(encode_qr_data(resp.text))]
    /\ UNCHANGED <<today, assets, certificates, tests, greq, treq>>

\* ------------------------------------------------------------ specification
\* Issuance: concurrent generate_certificate requests over the assets
Next ==
    \/ AdvanceClock
    \/ \E user \in Users, company \in Companies \cup {NoCompany},
          code \in AssetCodes :
          create_asset(user, company, code, NoDate)
    \/ \E r \in Requests, user \in Users, asset_id \in 1..MaxAssets,
          test_id \in 0..MaxTests, days \in ValidityDays :
          gc_start(r, user, asset_id, test_id, days, None)
    \/ \E r \in Requests : gc_insert(r)
    \/ \E r \in Requests : gc_finish(r)
    \/ \E r \in Requests : gc_render_fail(r)

Spec == Init /\ [][Next]_vars

\* Lifecycle: issuance one request at a time, and revocation
NextLifecycle ==
    \/ AdvanceClock
    \/ \E user \in Users : create_asset(user, NoCompany, "A", NoDate)
    \/ \E user \in Users, asset_id \in 1..MaxAssets, test_id \in 0..MaxTests,
          days \in ValidityDays, notes \in NoteTexts :
          gc_start(1, user, asset_id, test_id, days, notes)
    \/ gc_insert(1)
    \/ gc_finish(1)
    \/ gc_render_fail(1)
    \/ \E user \in Users, id \in 1..MaxCerts, reason \in Reasons :
          revoke_certificate(user, id, reason)

SpecLifecycle == Init /\ [][NextLifecycle]_vars

\* Administration: direct edits of the asset next to issuance and revocation
NextAdmin ==
    \/ \E user \in Users, company \in Companies \cup {NoCompany},
          expiry \in OptDates :
          create_asset(user, company, "A", expiry)
    \/ \E user \in Users, id \in 1..MaxAssets, patch \in AssetPatches :
          update_asset(user, id, patch)
    \/ \E user \in Users, id \in 1..MaxAssets : delete_asset(user, id)
    \/ \E user \in Users, asset_id \in 1..MaxAssets, days \in ValidityDays :
          gc_start(1, user, asset_id, NoId, days, None)
    \/ gc_insert(1)
    \/ gc_finish(1)
    \/ gc_render_fail(1)
    \/ \E user \in Users, id \in 1..MaxCerts :
          revoke_certificate(user, id, None)

SpecAdmin == Init /\ [][NextAdmin]_vars


\* Testing: concurrent create_test and submit_test_results requests
NextTests ==
    \/ AdvanceClock
    \/ \E user \in Users : create_asset(user, NoCompany, "A", NoDate)
    \/ \E r \in TRequests, user \in Users, asset_id \in 1..MaxAssets,
          payload \in TestPayloads :
          create_test_start(r, user, asset_id, payload)
    \/ \E r \in TRequests, user \in Users, asset_in \in 0..MaxAssets,
          qr \in {None} \cup {qr_data(i) : i \in 1..MaxAssets},
          payload \in TestPayloads :
          submit_test_results_start(r, user, asset_in, qr, payload)
    \/ \E r \in TRequests : create_test_insert(r)
    \/ \E r \in TRequests : submit_test_results_insert(r)

SpecTests == Init /\ [][NextTests]_vars

\* Certificate.is_valid and Certificate.days_until_expiry as functions of
\* the stored row and the day: one stored certificate of any status and
\* expiry, read on each day of the clock.
ExpiryDates == {0, ValidityMin, DayStep, ValidityMax}

InitValidity ==
    /\ today = 0
    /\ assets = <<[company_id |-> 1, asset_code |-> "A",
                   is_deleted |-> FALSE,
                   certificate_expiry_date |-> NoDate,
                   last_inspection_date |-> NoDate,
                   next_inspection_date |-> NoDate]>>
    /\ \E st \in CertificateStatus, e \in ExpiryDates :
          certificates = <<[asset_id |-> 1,
                            certificate_number |-> CertNumber(0, 1),
                            issue_date |-> 0, expiry_date |-> e,
                            status |-> st, test_id |-> NoId,
                            pdf_url |-> <<"pdf">>, notes |-> None,
                            asset_updated |-> TRUE]>>
    /\ tests = <<>>
    /\ greq = [r \in Requests |-> IdleG]
    /\ treq = [r \in TRequests |-> IdleT]
    /\ resp = NoResp

NextValidity ==
    \/ AdvanceClock
    \/ \E user \in Users, id \in 1..MaxCerts : get_certificate(user, id)
    \/ \E user \in Users, asset_id \in 0..1, st \in {"None", "issued"},
          soon \in BOOLEAN :
          list_certificates(user, asset_id, st, soon)
    \/ \E n \in 1..MaxCerts : verify_certificate(CertNumber(0, n))

SpecValidity == InitValidity /\ [][NextValidity]_vars

\* Reading: issuance, revocation and the passing of days, with the three
\* certificate reads in between
NextRead ==
    \/ AdvanceClock
    \/ \E user \in Users : create_asset(user, NoCompany, "A", NoDate)
    \/ \E user \in Users, asset_id \in 1..MaxAssets :
          gc_start(1, user, asset_id, NoId, ValidityMin, None)
    \/ gc_insert(1)
    \/ gc_finish(1)
    \/ gc_render_fail(1)
    \/ \E user \in Users, id \in 1..MaxCerts :
          revoke_certificate(user, id, None)
    \/ \E user \in Users, id \in 1..MaxCerts : get_certificate(user, id)
    \/ \E user \in Users, st \in {"None", "issued"}, soon \in BOOLEAN :
          list_certificates(user, NoId, st, soon)
    \/ \E b \in 0..MaxTicks, n \in 1..MaxCerts :
          verify_certificate(CertNumber(b, n))

SpecRead == Init /\ [][NextRead]_vars

\* validate_test_result as a function of the stored row: one test with
\* drawn loads, percentage, measurements and defects, validated on request.
Measurements ==
    {[k \in {} |-> 0], [deflection |-> 6],
     [deflection |-> 5, max_deflection |-> 5],
     [deflection |-> 6, max_deflection |-> 5]}
Deformations ==
    {[k \in {} |-> 0], [permanent_deformation |-> DefaultMaxDeformation],
     [permanent_deformation |-> DefaultMaxDeformation + 1]}
Brakes == {[k \in {} |-> 0], [brake_test |-> TRUE], [brake_test |-> FALSE]}
Accuracies ==
    {[k \in {} |-> 0], [indicator_accuracy |-> DefaultAccuracyTolerance],
     [indicator_accuracy |-> DefaultAccuracyTolerance + 1]}
Defects == {None, <<>>, <<" ">>, <<"rust">>}
SafeLoad == 100
\* the loads about 95% of 125% of SafeLoad (118.75)
TestLoads == {NoNum, 118, 119}
Percentages == {NoNum, DefaultPercentage, 110}

InitValidate ==
    /\ today = 0
    /\ assets = <<[company_id |-> 1, asset_code |-> "A",
                   is_deleted |-> FALSE,
                   certificate_expiry_date |-> NoDate,
                   last_inspection_date |-> NoDate,
                   next_inspection_date |-> NoDate]>>
    /\ certificates = <<>>
    /\ \E swl \in {NoNum, SafeLoad}, load \in TestLoads,
          pct \in Percentages, m1 \in Measurements, m2 \in Deformations,
          m3 \in Brakes, m4 \in Accuracies, defects \in Defects :
          tests = <<[test_number |-> TestNumber(0, 1), asset_id |-> 1,
                     status |-> "completed", result |-> "pending",
                     is_validated |-> FALSE,
                     safe_working_load |-> swl, test_load |-> load,
                     test_load_percentage |-> pct,
                     measured_values |-> m1 @@ m2 @@ m3 @@ m4,
                     defects_found |-> defects]>>
    /\ greq = [r \in Requests |-> IdleG]
    /\ treq = [r \in TRequests |-> IdleT]
    /\ resp = NoResp

NextValidate ==
    \E user \in Users, id \in 1..MaxTests : validate_test(user, id)

SpecValidate == InitValidate /\ [][NextValidate]_vars

\* Test lifecycle: creation and field submission one request at a time,
\* then the edits of update_test and the manual validate_test
NextTestLifecycle ==
    \/ \E user \in Users : create_asset(user, NoCompany, "A", NoDate)
    \/ \E user \in Users, asset_id \in 1..MaxAssets :
          create_test_start(1, user, asset_id, PassingPayload)
    \/ \E user \in Users, asset_in \in 1..MaxAssets :
          submit_test_results_start(1, user, asset_in, None, PassingPayload)
    \/ create_test_insert(1)
    \/ submit_test_results_insert(1)
    \/ \E user \in Users, id \in 1..MaxTests,
          test_data \in TestPatches :
          update_test(user, id, test_data)
    \/ \E user \in Users, id \in 1..MaxTests : validate_test(user, id)

SpecTestLifecycle == Init /\ [][NextTestLifecycle]_vars

\* The expiry scan over stored assets: two assets with drawn expiry dates
\* about both ends of the window, live or deleted, scanned on each day
ScanDates ==
    {NoDate, 0, AlertDays, AlertDays + 1, DayStep, DayStep + AlertDays,
     DayStep + AlertDays + 1}

InitScan ==
    /\ today = 0
    /\ \E e1 \in ScanDates, e2 \in ScanDates, d1 \in BOOLEAN, d2 \in BOOLEAN :
          assets = <<[company_id |-> 1, asset_code |-> "A",
                      is_deleted |-> d1, certificate_expiry_date |-> e1,
                      last_inspection_date |-> NoDate,
                      next_inspection_date |-> NoDate],
                     [company_id |-> 2, asset_code |-> "A",
                      is_deleted |-> d2, certificate_expiry_date |-> e2,
                      last_inspection_date |-> NoDate,
                      next_inspection_date |-> NoDate]>>
    /\ certificates = <<>>
    /\ tests = <<>>
    /\ greq = [r \in Requests |-> IdleG]
    /\ treq = [r \in TRequests |-> IdleT]
    /\ resp = NoResp

NextScan ==
    \/ AdvanceClock
    \/ check_expiring_certificates

SpecScan == InitScan /\ [][NextScan]_vars

\* Every operation that the asset's dates could depend on, on one day and
\* for the inspector of one company: asset edits, issuance, revocation, the
\* test handlers and the expiry scan
Actors == {u \in Users : u.company_id = 1 /\ require_inspector(u)}

NextAssetDates ==
    \/ \E user \in Actors : create_asset(user, NoCompany, "A", NoDate)
    \/ \E user \in Actors, id \in 1..MaxAssets, patch \in AssetPatches :
          update_asset(user, id, patch)
    \/ \E user \in Actors, asset_id \in 1..MaxAssets :
          gc_start(1, user, asset_id, NoId, ValidityMin, None)
    \/ gc_insert(1)
    \/ gc_finish(1)
    \/ gc_render_fail(1)
    \/ \E user \in Actors, id \in 1..MaxCerts :
          revoke_certificate(user, id, None)
    \/ \E user \in Actors, asset_id \in 1..MaxAssets :
          create_test_start(1, user, asset_id, PassingPayload)
    \/ \E user \in Actors, asset_in \in 1..MaxAssets :
          submit_test_results_start(1, user, asset_in, None, PassingPayload)
    \/ create_test_insert(1)
    \/ submit_test_results_insert(1)
    \/ \E user \in Actors, id \in 1..MaxTests :
          update_test(user, id, [status |-> "completed"])
    \/ \E user \in Actors, id \in 1..MaxTests : validate_test(user, id)
    \/ check_expiring_certificates

SpecAssetDates == Init /\ [][NextAssetDates]_vars

\* The short code as a function of its input: a string is drawn, decoded as
\* a scanned code and, when it is an asset id, encoded and decoded again
InitQr ==
    /\ today = 0
    /\ assets = <<>>
    /\ certificates = <<>>
    /\ tests = <<>>
    /\ greq = [r \in Requests |-> IdleG]
    /\ treq = [r \in TRequests |-> IdleT]
    /\ \E text \in StringsOver(QrChars, MaxQrLen) :
          resp = [kind |-> "input", text |-> text]

NextQr ==
    \/ scan_qr
    \/ encode_then_decode

SpecQr == InitQr /\ [][NextQr]_vars

\* Issuance from tests: assets of two companies, live or soft-deleted, field
\* submissions, and generate_certificate with or without a test reference
NextIssueFromTest ==
    \/ \E user \in Users : create_asset(user, NoCompany, "A", NoDate)
    \/ \E user \in Users, id \in 1..MaxAssets : delete_asset(user, id)
    \/ \E user \in Users, asset_in \in 1..MaxAssets :
          submit_test_results_start(1, user, asset_in, None, PassingPayload)
    \/ submit_test_results_insert(1)
    \/ \E user \in Users, asset_id \in 1..MaxAssets, test_id \in 0..MaxTests :
          gc_start(1, user, asset_id, test_id, ValidityMin, None)
    \/ gc_insert(1)
    \/ gc_finish(1)
    \/ gc_render_fail(1)

SpecIssueFromTest == Init /\ [][NextIssueFromTest]_vars

\* ------------------------------------------------ asset-level derived state
ExpiringSoonDays == 30

\* models/asset.py Asset.is_certificate_expiring_soon, read on day d
is_certificate_expiring_soon(asset, d) ==
    IF asset.certificate_expiry_date = NoDate
    THEN FALSE
    ELSE LET days == asset.certificate_expiry_date - d
         IN  0 < days /\ days <= ExpiringSoonDays

\* models/asset.py Asset.is_certificate_expired, read on day d
is_certificate_expired(asset, d) ==
    IF asset.certificate_expiry_date = NoDate
    THEN FALSE
    ELSE asset.certificate_expiry_date < d

\* ================================================================== claims
IsPrefix(p, s) == Len(p) <= Len(s) /\ SubSeq(s, 1, Len(p)) = p
IsSuffix(p, s) ==
    Len(p) <= Len(s) /\ SubSeq(s, Len(s) - Len(p) + 1, Len(s)) = p

\* C1: N concurrent generate_certificate requests of one month bucket all
\* succeed (none ends in a numbering conflict) and the stored certificates
\* carry pairwise distinct numbers.
C1_ConcurrentIssuancesAllSucceed ==
    /\ \A r \in Requests : greq[r].outcome # "conflict"
    /\ \A i, j \in DOMAIN certificates :
          i # j => certificates[i].certificate_number
                     # certificates[j].certificate_number

\* C3: a request fails with a numbering conflict only after it has re-derived
\* the count and retried, that is after more than one attempt.
C3_ConflictFailsOnlyAfterRetries ==
    \A r \in Requests : greq[r].outcome = "conflict" => greq[r].attempts >= 2

\* C4: no reader sees a certificate of a generate_certificate call whose
\* asset update has not been applied, also after the call has failed.
C4_IssuanceAtomicForReaders ==
    \A i \in DOMAIN ReadView(certificates) :
        ReadView(certificates)[i].asset_updated

\* C5: after a failed rendering step the certificate of that request is
\* absent, or is not issued, or has a document reference.
C5_RenderFailureLeavesNoIssuedCertificate ==
    \A r \in Requests :
        greq[r].outcome = "render_failed" =>
            LET id == greq[r].cert_id
            IN  \/ id \notin DOMAIN certificates
                \/ certificates[id].status # "issued"
                \/ certificates[id].pdf_url # None

\* C6: a generate_certificate call that reads the clock on day t with
\* validity_days d in 30..730 stores an issued certificate with issue_date t
\* and expiry_date t + d; when it succeeds the asset gets
\* certificate_expiry_date t + d, last_inspection_date t and
\* next_inspection_date t + d - 30; every stored certificate expires after
\* its issue date.
C6_IssuanceDates ==
    [][\A r \in Requests :
        /\ (greq[r].pc = "numbered" /\ greq'[r].pc = "inserted") =>
              LET c == certificates'[greq'[r].cert_id]
                  d == greq[r].validity_days
              IN  /\ d >= 30 /\ d <= 730
                  /\ c.status = "issued"
                  /\ c.issue_date = today
                  /\ c.expiry_date = today + d
        /\ (greq[r].pc = "inserted" /\ greq'[r].outcome = "ok") =>
              LET c == certificates'[greq[r].cert_id]
                  d == greq[r].validity_days
                  a == assets'[c.asset_id]
              IN  /\ c.expiry_date = c.issue_date + d
                  /\ a.certificate_expiry_date = c.issue_date + d
                  /\ a.last_inspection_date = c.issue_date
                  /\ a.next_inspection_date = c.issue_date + d - 30
        /\ \A i \in DOMAIN certificates' :
              certificates'[i].expiry_date > certificates'[i].issue_date
      ]_vars

\* a request has succeeded on the second day of the model and its asset
\* carries the dates of the certificate
C6_Witness ==
    \E r \in Requests :
        /\ greq[r].outcome = "ok"
        /\ LET c == certificates[greq[r].cert_id]
           IN  /\ c.issue_date > 0
               /\ assets[c.asset_id].certificate_expiry_date = c.expiry_date
               /\ assets[c.asset_id].next_inspection_date
                    = c.expiry_date - 30

\* C8: no asset has two certificates in status issued at the same time.
C8_AtMostOneIssuedPerAsset ==
    \A i, j \in DOMAIN certificates :
        (i # j /\ certificates[i].asset_id = certificates[j].asset_id) =>
            ~(certificates[i].status = "issued"
                /\ certificates[j].status = "issued")

\* the most recently issued certificate of an asset that is not superseded
LatestCertificate(asset_id) ==
    LET mine == {i \in DOMAIN certificates :
                    /\ certificates[i].asset_id = asset_id
                    /\ certificates[i].status # "superseded"}
    IN  IF mine = {} THEN NoId
        ELSE CHOOSE i \in mine : \A j \in mine : j <= i

\* C7: an asset whose certificate_expiry_date is set has the expiry_date of
\* its most recently issued, non-superseded certificate.
C7_ExpiryMatchesLatestCertificate ==
    \A a \in DOMAIN assets :
        assets[a].certificate_expiry_date # NoDate =>
            /\ LatestCertificate(a) # NoId
            /\ assets[a].certificate_expiry_date
                 = certificates[LatestCertificate(a)].expiry_date

\* C9: revoke_certificate on an issued certificate with reason r sets the
\* status to revoked, keeps the previous notes as a prefix of the new notes
\* with r at their end, and makes is_valid false on every date.
C9_RevokeIssued ==
    [][\A user \in Users, id \in 1..MaxCerts, reason \in Reasons \ {None} :
        (/\ id \in DOMAIN certificates
         /\ certificates[id].status = "issued"
         /\ revoke_certificate(user, id, reason)) =>
            LET old == certificates[id]
                new == certificates'[id]
            IN  /\ new.status = "revoked"
                /\ IsPrefix(OrEmpty(old.notes), OrEmpty(new.notes))
                /\ IsSuffix(reason, OrEmpty(new.notes))
                /\ reason # <<>> => new.notes # old.notes
                /\ \A d \in {0, today, new.expiry_date} : ~is_valid(new, d)
      ]_vars

\* a certificate with notes, not lapsed, has been revoked with a reason
C9_Witness ==
    \E i \in DOMAIN certificates :
        /\ certificates[i].status = "revoked"
        /\ certificates[i].notes = <<"n", "\nRevoked: ", "crack">>
        /\ certificates[i].expiry_date >= today

\* C10: once a certificate is revoked, no step changes its status or its
\* notes, and no revoke_certificate call on it is carried out.
C10_RevokedIsTerminal ==
    [][\A id \in DOMAIN certificates :
        certificates[id].status = "revoked" =>
            /\ certificates'[id].status = "revoked"
            /\ certificates'[id].notes = certificates[id].notes
            /\ \A user \in Users, reason \in Reasons :
                  ~revoke_certificate(user, id, reason)
      ]_vars


\* C2: no two stored tests have the same test_number.
C2_TestNumbersUnique ==
    \A i, j \in DOMAIN tests :
        i # j => tests[i].test_number # tests[j].test_number

\* C11: is_valid is true exactly when the stored status is issued and the
\* expiry date is on or after the day of evaluation; it is false for draft,
\* expired, revoked and superseded certificates whatever the dates.  Every
\* response that reports is_valid reports that value, and the passing of the
\* expiry date leaves the stored status issued.
C11_IsValid ==
    /\ [](\A i \in DOMAIN certificates :
            \A d \in {certificates[i].expiry_date - 1,
                      certificates[i].expiry_date,
                      certificates[i].expiry_date + 1} :
               /\ is_valid(certificates[i], d) <=>
                     (certificates[i].status = "issued"
                      /\ certificates[i].expiry_date >= d)
               /\ certificates[i].status
                     \in {"draft", "expired", "revoked", "superseded"} =>
                     ~is_valid(certificates[i], d))
    /\ [](resp.kind \in {"get_certificate", "list_certificates",
                         "verify_certificate"} =>
            \A k \in DOMAIN resp.items :
               resp.items[k].is_valid <=>
                  (certificates[resp.items[k].id].status = "issued"
                   /\ certificates[resp.items[k].id].expiry_date
                         >= resp.as_of))
    /\ [][\A i \in DOMAIN certificates :
             certificates'[i].status = certificates[i].status]_vars

\* a certificate read after its expiry date: stored as issued, reported as
\* not valid
C11_Witness ==
    /\ resp.kind = "get_certificate"
    /\ resp.code = 200
    /\ certificates[1].status = "issued"
    /\ resp.as_of > certificates[1].expiry_date
    /\ ~resp.items[1].is_valid

\* C12: days_until_expiry is the expiry date minus the day of evaluation,
\* and every response that reports it for a certificate that is not valid
\* (verify_certificate, get_certificate, list_certificates) reports 0
\* instead of the raw value.
C12_DaysClampedInEveryResponse ==
    /\ \A i \in DOMAIN certificates :
          /\ days_until_expiry(certificates[i], certificates[i].expiry_date)
                = 0
          /\ days_until_expiry(certificates[i],
                               certificates[i].expiry_date + 1) = -1
    /\ resp.kind \in {"get_certificate", "list_certificates",
                      "verify_certificate"} =>
          \A k \in DOMAIN resp.items :
             resp.items[k].days_until_expiry =
                IF resp.items[k].is_valid
                THEN certificates[resp.items[k].id].expiry_date - resp.as_of
                ELSE 0

\* C19: for every caller that is not a super admin, a caller without a
\* company included, the authenticated operations return and modify only
\* records whose asset belongs to the caller's company; verify_certificate
\* is the only open read.
C19_TenantIsolation ==
    /\ [](resp.kind \in {"get_certificate", "list_certificates"}
          /\ resp.caller.role # "super_admin" =>
            \A k \in DOMAIN resp.items :
               assets[resp.items[k].asset_id].company_id
                  = resp.caller.company_id)
    /\ [][\A user \in Users, id \in DOMAIN certificates :
             revoke_certificate(user, id, None)
             /\ user.role # "super_admin" =>
                assets[certificates[id].asset_id].company_id
                   = user.company_id]_vars
    /\ [][\A user \in Users, asset_id \in DOMAIN assets :
             gc_start(1, user, asset_id, NoId, ValidityMin, None)
             /\ greq'[1].pc = "numbered"
             /\ user.role # "super_admin" =>
                assets[asset_id].company_id = user.company_id]_vars

\* C13: with the default percentage (none stored, or 125), a test load
\* below 1.25 * SWL * 0.95 makes validate_test_result return FAIL, whatever
\* the measurements and the defects are.
C13_ShortLoadFails ==
    /\ \A i \in DOMAIN tests :
          /\ tests[i].is_validated
          /\ tests[i].test_load_percentage \in {NoNum, DefaultPercentage}
          /\ tests[i].safe_working_load # NoNum
          /\ tests[i].test_load # NoNum
          /\ tests[i].test_load * 100 * 100
                < DefaultPercentage * tests[i].safe_working_load
                     * LoadTolerance
          => tests[i].result = "fail"
    /\ resp.kind = "validate_test" =>
          \A k \in DOMAIN resp.items :
             LET t == tests[resp.items[k].test_id]
             IN  /\ t.test_load_percentage \in {NoNum, DefaultPercentage}
                 /\ t.safe_working_load # NoNum
                 /\ t.test_load # NoNum
                 /\ t.test_load * 100 * 100
                       < DefaultPercentage * t.safe_working_load
                            * LoadTolerance
                 => /\ resp.items[k].result = "fail"
                    /\ ~resp.items[k].is_pass
                    /\ resp.items[k].validation_details["load_check"]
                          = "fail"

\* a short load with every other check run and passed: still FAIL
C13_Witness ==
    /\ resp.kind = "validate_test"
    /\ tests[1].test_load = 118
    /\ tests[1].safe_working_load = SafeLoad
    /\ tests[1].test_load_percentage = NoNum
    /\ resp.items[1].result = "fail"
    /\ \A c \in {"deflection_check", "visual_check", "deformation_check",
                 "brake_check", "accuracy_check"} :
          /\ c \in DOMAIN resp.items[1].validation_details
          /\ resp.items[1].validation_details[c] = "pass"

\* C14: a non-empty defects_found with every other check that runs passed
\* (any set of optional measurements, none included) makes the visual check
\* conditional and the verdict CONDITIONAL, not FAIL; with empty defects
\* the visual check passes.
C14_DefectsGiveConditional ==
    resp.kind = "validate_test" =>
       \A k \in DOMAIN resp.items :
          LET t == tests[resp.items[k].test_id]
              d == resp.items[k].validation_details
          IN  /\ (/\ Truthy(t.defects_found)
                  /\ Strip(t.defects_found) # <<>>
                  /\ \A c \in DOMAIN d \ {"visual_check"} : d[c] = "pass")
                 => /\ d["visual_check"] = "conditional"
                    /\ resp.items[k].result = "conditional"
              /\ ~Truthy(t.defects_found) => d["visual_check"] = "pass"

\* C15: in every state reached through create_test, submit_test_results,
\* update_test and validate_test, a test whose result is not pending has
\* is_validated true.
C15_ResultImpliesValidated ==
    \A i \in DOMAIN tests :
       tests[i].result # "pending" => tests[i].is_validated

\* C16: validate_test stamps the result and is_validated only on a test
\* whose status is completed, and no scheduled, in-progress or cancelled
\* test ever has is_validated true.
C16_ValidatedOnlyWhenCompleted ==
    /\ [](\A i \in DOMAIN tests :
            tests[i].status \in {"scheduled", "in_progress", "cancelled"}
            => ~tests[i].is_validated)
    /\ [][\A user \in Users, id \in DOMAIN tests :
             validate_test(user, id) /\ tests'[id].is_validated
             => tests[id].status = "completed"]_vars

StatusRank(st) ==
    CASE st = "scheduled" -> 0
      [] st = "in_progress" -> 1
      [] st \in {"completed", "cancelled"} -> 2

\* C17: the status of a test only moves forward along scheduled,
\* in_progress, then completed or cancelled, and never changes once it is
\* completed or cancelled, update_test included.
C17_StatusMovesForward ==
    [][\A i \in DOMAIN tests :
          tests'[i].status # tests[i].status =>
             StatusRank(tests'[i].status) > StatusRank(tests[i].status)]_vars

\* C20: check_expiring_certificates run on day D with horizon H returns
\* exactly the non-deleted assets whose certificate_expiry_date e satisfies
\* D <= e <= D + H, each with days_remaining = e - D (in 0..H) and its
\* company; an asset without an expiry date never appears; the scan changes
\* no stored state, and a scan of the same state on the same day returns the
\* same set (the result is this function of the assets and the day).
C20_ScanWindow ==
    /\ [](resp.kind = "check_expiring_certificates" /\ resp.as_of = today =>
            /\ resp.items =
                  {[asset |-> i,
                    days_remaining |->
                        assets[i].certificate_expiry_date - resp.as_of,
                    company_id |-> assets[i].company_id] :
                   i \in {j \in DOMAIN assets :
                      /\ ~assets[j].is_deleted
                      /\ assets[j].certificate_expiry_date # NoDate
                      /\ resp.as_of <= assets[j].certificate_expiry_date
                      /\ assets[j].certificate_expiry_date
                            <= resp.as_of + AlertDays}}
            /\ \A a \in resp.items : a.days_remaining \in 0..AlertDays)
    /\ [][resp'.kind = "check_expiring_certificates" /\ resp' # resp =>
             /\ today' = today
             /\ assets' = assets
             /\ certificates' = certificates
             /\ tests' = tests]_vars

\* a scan that reports one asset on the last day of the window and leaves
\* out an asset whose date lies one day beyond it
C20_Witness ==
    /\ resp.kind = "check_expiring_certificates"
    /\ resp.as_of = today
    /\ \E a \in resp.items : a.days_remaining = AlertDays
    /\ \E i \in DOMAIN assets :
          /\ assets[i].certificate_expiry_date = today + AlertDays + 1
          /\ ~assets[i].is_deleted
          /\ \A a \in resp.items : a.asset # i

AssetDates(a) ==
    <<a.certificate_expiry_date, a.last_inspection_date,
      a.next_inspection_date>>

IssuanceOrEditOf(i) ==
    \/ \E r \in Requests :
          gc_finish(r) /\ certificates[greq[r].cert_id].asset_id = i
    \/ \E user \in Users, patch \in AssetPatches : update_asset(user, i, patch)

\* C18 (as stated): an asset's certificate_expiry_date, last_inspection_date
\* and next_inspection_date are changed only by generate_certificate and by
\* create_asset / update_asset; every other operation leaves all three
\* unchanged.
C18_OnlyIssuanceAndEditsChangeDates ==
    [][\A i \in DOMAIN assets :
          AssetDates(assets'[i]) # AssetDates(assets[i]) =>
             IssuanceOrEditOf(i)]_vars

\* C18 (amended): certificate_expiry_date and next_inspection_date are
\* changed only by generate_certificate and by create_asset / update_asset;
\* last_inspection_date is changed by these and by submit_test_results,
\* which sets it to the day of the submission and nothing else on the
\* asset; create_test, validate_test, update_test, revoke_certificate and
\* the expiry scan leave all three dates unchanged.
C18_AssetDatesFrame ==
    [][/\ \A i \in DOMAIN assets :
             /\ (\/ assets'[i].certificate_expiry_date
                       # assets[i].certificate_expiry_date
                 \/ assets'[i].next_inspection_date
                       # assets[i].next_inspection_date)
                => IssuanceOrEditOf(i)
             /\ assets'[i].last_inspection_date
                   # assets[i].last_inspection_date
                => \/ IssuanceOrEditOf(i)
                   \/ \E r \in TRequests :
                         /\ submit_test_results_insert(r)
                         /\ treq[r].asset_id = i
                         /\ assets'[i].last_inspection_date = today
       /\ (\/ \E r \in TRequests : create_test_insert(r)
           \/ \E user \in Users, id \in DOMAIN tests :
                 validate_test(user, id)
           \/ \E user \in Users, id \in DOMAIN tests,
                 test_data \in TestPatches : update_test(user, id, test_data)
           \/ \E user \in Users, id \in DOMAIN certificates,
                 reason \in Reasons : revoke_certificate(user, id, reason)
           \/ check_expiring_certificates)
          => \A i \in DOMAIN assets :
                AssetDates(assets'[i]) = AssetDates(assets[i])]_vars

\* a field submission has stamped the asset's last inspection date with the
\* day of the submission, while no certificate exists and the two other
\* dates are still unset
C18_Witness ==
    /\ certificates = <<>>
    /\ \E t \in DOMAIN tests :
          /\ tests[t].status = "completed"
          /\ tests[t].is_validated
          /\ assets[tests[t].asset_id].last_inspection_date = today
          /\ assets[tests[t].asset_id].certificate_expiry_date = NoDate
          /\ assets[tests[t].asset_id].next_inspection_date = NoDate

OptionalKeys ==
    {"deflection", "permanent_deformation", "brake_test",
     "indicator_accuracy"}

Passed(d) == Cardinality({c \in DOMAIN d : d[c] = "pass"})

\* C21: validate_test_result returns PASS iff every check that ran passed;
\* CONDITIONAL iff not every check passed, checks_passed / total_checks is
\* at least 75% and no check has status fail; FAIL otherwise; and a failed
\* load, brake or deformation check gives FAIL whatever the percentage is.
C21_VerdictRule ==
    resp.kind = "validate_test" =>
       \A k \in DOMAIN resp.items :
          LET d == resp.items[k].validation_details
              res == resp.items[k].result
              total == Cardinality(DOMAIN d)
              all_passed == \A c \in DOMAIN d : d[c] = "pass"
              conditional ==
                  /\ ~all_passed
                  /\ Passed(d) * 100 >= 75 * total
                  /\ \A c \in DOMAIN d : d[c] # "fail"
          IN  /\ res = "pass" <=> all_passed
              /\ res = "conditional" <=> conditional
              /\ res = "fail" <=> ~all_passed /\ ~conditional
              /\ (\E c \in {"load_check", "brake_check", "deformation_check"}
                         \cap DOMAIN d : d[c] = "fail")
                 => res = "fail"
              /\ tests[resp.items[k].test_id].result = res

\* three of four checks passed and the fourth, a non-critical one, failed:
\* 75% reached, yet FAIL
C21_Witness ==
    /\ resp.kind = "validate_test"
    /\ Cardinality(DOMAIN resp.items[1].validation_details) = 4
    /\ Passed(resp.items[1].validation_details) = 3
    /\ "accuracy_check" \in DOMAIN resp.items[1].validation_details
    /\ resp.items[1].validation_details["accuracy_check"] = "fail"
    /\ resp.items[1].result = "fail"

\* C22: a check whose trigger key is absent from measured_values is skipped,
\* not failed: total_checks is 2 (load, visual) plus the number of keys
\* present among deflection, permanent_deformation, brake_test and
\* indicator_accuracy; details has an entry for a check iff it ran; a
\* passing load with no optional keys and no defects gives PASS with
\* checks_passed = total_checks = 2.
C22_AbsentChecksSkipped ==
    resp.kind = "validate_test" =>
       \A k \in DOMAIN resp.items :
          LET t == tests[resp.items[k].test_id]
              d == resp.items[k].validation_details
              m == t.measured_values
              v == validate_test_result(t)
          IN  /\ v.total_checks
                    = 2 + Cardinality(OptionalKeys \cap DOMAIN m)
              /\ v.details = d
              /\ {"load_check", "visual_check"} \subseteq DOMAIN d
              /\ "deflection_check" \in DOMAIN d <=> "deflection" \in DOMAIN m
              /\ "deformation_check" \in DOMAIN d
                    <=> "permanent_deformation" \in DOMAIN m
              /\ "brake_check" \in DOMAIN d <=> "brake_test" \in DOMAIN m
              /\ "accuracy_check" \in DOMAIN d
                    <=> "indicator_accuracy" \in DOMAIN m
              /\ (/\ d["load_check"] = "pass"
                  /\ OptionalKeys \cap DOMAIN m = {}
                  /\ ~Truthy(t.defects_found))
                 => /\ resp.items[k].result = "pass"
                    /\ v.checks_passed = 2
                    /\ v.total_checks = 2

\* a passing load, no optional keys, no defects: PASS on two checks
C22_Witness ==
    /\ resp.kind = "validate_test"
    /\ tests[1].test_load = 119
    /\ tests[1].safe_working_load = SafeLoad
    /\ DOMAIN tests[1].measured_values = {}
    /\ tests[1].defects_found = None
    /\ resp.items[1].result = "pass"
    /\ DOMAIN resp.items[1].validation_details
          = {"load_check", "visual_check"}

\* C26 (as stated): validate_test_result returns CONDITIONAL if and only if
\* defects_found is non-empty, every other check that ran has status pass
\* and at least two of the four optional checks ran (total_checks >= 4);
\* with defects, all other checks passed and fewer than two optional checks
\* the result is FAIL.
C26_ConditionalIffDefects ==
    resp.kind = "validate_test" =>
       \A k \in DOMAIN resp.items :
          LET t == tests[resp.items[k].test_id]
              d == resp.items[k].validation_details
              defects == Truthy(t.defects_found)
              others_pass ==
                  \A c \in DOMAIN d \ {"visual_check"} : d[c] = "pass"
          IN  /\ resp.items[k].result = "conditional" <=>
                    (defects /\ others_pass /\ Cardinality(DOMAIN d) >= 4)
              /\ (defects /\ others_pass /\ Cardinality(DOMAIN d) < 4)
                 => resp.items[k].result = "fail"

\* C26 (amended): the same with "defects_found is non-empty" read as
\* "defects_found holds something other than blanks": a defects_found made
\* of blanks only counts as no defect, the visual check passes.
C26_ConditionalIffVisibleDefects ==
    resp.kind = "validate_test" =>
       \A k \in DOMAIN resp.items :
          LET t == tests[resp.items[k].test_id]
              d == resp.items[k].validation_details
              defects == Truthy(t.defects_found)
                         /\ \E j \in DOMAIN t.defects_found :
                               t.defects_found[j] # " "
              others_pass ==
                  \A c \in DOMAIN d \ {"visual_check"} : d[c] = "pass"
          IN  /\ resp.items[k].result = "conditional" <=>
                    (defects /\ others_pass /\ Cardinality(DOMAIN d) >= 4)
              /\ (defects /\ others_pass /\ Cardinality(DOMAIN d) < 4)
                 => resp.items[k].result = "fail"
              /\ (~defects /\ others_pass) => resp.items[k].result = "pass"

\* defects noted next to a passed load and exactly two passed optional
\* checks: CONDITIONAL at three of four
C26_Witness ==
    /\ resp.kind = "validate_test"
    /\ tests[1].defects_found = <<"rust">>
    /\ Cardinality(DOMAIN resp.items[1].validation_details) = 4
    /\ Passed(resp.items[1].validation_details) = 3
    /\ resp.items[1].result = "conditional"

\* C25: the asset short code round-trips: for every asset identifier id,
\* decode_qr_data("CT-" + id) is valid and returns exactly id, and
\* decode_qr_data is invalid for every string that does not start with "CT-".
C25_QrRoundTrip ==
    /\ resp.kind = "round_trip" =>
          /\ resp.qr_data = <<"C", "T", "-">> \o resp.asset_id
          /\ resp.decoded.valid
          /\ resp.decoded.asset_id = resp.asset_id
    /\ resp.kind = "decode_qr_data" =>
          /\ (Len(resp.qr_data) < 3
              \/ <<resp.qr_data[1], resp.qr_data[2], resp.qr_data[3]>>
                    # <<"C", "T", "-">>)
             => ~resp.decoded.valid
          /\ \A id \in AssetIds :
                resp.qr_data = <<"C", "T", "-">> \o id =>
                   resp.decoded.valid /\ resp.decoded.asset_id = id

\* an id with a dash has gone through the round trip
C25_Witness ==
    /\ resp.kind = "round_trip"
    /\ resp.asset_id = <<"a", "-", "a">>
    /\ resp.qr_data = <<"C", "T", "-", "a", "-", "a">>
    /\ resp.decoded.valid
    /\ resp.decoded.asset_id = <<"a", "-", "a">>

\* C23: generate_certificate fails with NotFound when the asset is missing
\* or soft-deleted, with AccessDenied when the asset belongs to another
\* tenant, and with NotFound when a given test reference does not resolve;
\* in each case no certificate is created, no asset field changes and no
\* certificate number is consumed.
C23_IssuanceErrorsLeaveNoTrace ==
    [][\A r \in Requests :
       (greq[r].pc = "idle" /\ greq'[r] # greq[r]) =>
       \A user \in Users, asset_id \in 1..MaxAssets, test_id \in 0..MaxTests :
          \* a request that fails ends the same way whatever its validity
          \* and notes are
          (/\ require_inspector(user)
           /\ gc_start(r, user, asset_id, test_id, ValidityMin, None)) =>
             LET missing == asset_id \notin DOMAIN assets
                            \/ assets[asset_id].is_deleted
                 foreign == /\ ~missing
                            /\ user.role # "super_admin"
                            /\ assets[asset_id].company_id # user.company_id
                 no_test == /\ ~missing
                            /\ ~foreign
                            /\ test_id # NoId
                            /\ test_id \notin DOMAIN tests
             IN  /\ missing => greq'[r].outcome = "not_found"
                 /\ foreign => greq'[r].outcome = "forbidden"
                 /\ no_test => greq'[r].outcome = "not_found"
                 /\ (missing \/ foreign \/ no_test) =>
                       /\ greq'[r].pc = "idle"
                       /\ certificates' = certificates
                       /\ assets' = assets
                       /\ generate_certificate_number(certificates', today')
                             = generate_certificate_number(certificates,
                                                           today)
                 /\ ~(missing \/ foreign \/ no_test) =>
                       greq'[r].pc = "numbered"]_vars

\* a request has ended with NotFound while the only assets are soft-deleted
\* and nothing was issued
C23_Witness ==
    /\ greq[1].outcome = "not_found"
    /\ greq[1].pc = "idle"
    /\ assets # <<>>
    /\ \A i \in DOMAIN assets : assets[i].is_deleted
    /\ certificates = <<>>

\* C24: a test owns at most one certificate: at most one stored certificate
\* references any given test_id.
C24_OneCertificatePerTest ==
    \A i \in DOMAIN certificates, j \in DOMAIN certificates :
       (i # j /\ certificates[i].test_id # NoId) =>
          certificates[i].test_id # certificates[j].test_id

\* C27: every certificate that references a test references a test of its
\* own asset.
C27_TestOfSameAsset ==
    \A i \in DOMAIN certificates :
       certificates[i].test_id # NoId =>
          tests[certificates[i].test_id].asset_id = certificates[i].asset_id

\* C28: every non-deleted asset whose certificate_expiry_date was set by
\* generate_certificate and is not before today has at least one certificate
\* with is_valid true; revoking the only issued certificate does not leave
\* the asset reporting a future expiry.
C28_FutureExpiryHasValidCertificate ==
    \A id \in DOMAIN assets :
       (/\ ~assets[id].is_deleted
        /\ assets[id].certificate_expiry_date # NoDate
        /\ assets[id].certificate_expiry_date >= today) =>
          \E i \in DOMAIN certificates :
             /\ certificates[i].asset_id = id
             /\ is_valid(certificates[i], today)

\* C29: the asset-level derived state agrees with the 30-day window of the
\* scanner and the list filter: an asset is in the window
\* today <= certificate_expiry_date <= today + 30 exactly when
\* is_certificate_expiring_soon is true, and every asset with an expiry date
\* is exactly one of expired, expiring soon, more than 30 days from expiry.
C29_DerivedStateAgreesWithWindow ==
    \A id \in DOMAIN assets :
       LET asset == assets[id]
           e == asset.certificate_expiry_date
           soon == is_certificate_expiring_soon(asset, today)
           expired == is_certificate_expired(asset, today)
           later == e - today > ExpiringSoonDays
       IN  /\ ExpiringWindow(e, today) <=> soon
           /\ e # NoDate =>
                 /\ soon \/ expired \/ later
                 /\ ~(soon /\ expired) /\ ~(soon /\ later) /\ ~(expired /\ later)

\* C30: in every reachable state a stored certificate's status is issued or
\* revoked, and the only status change any operation performs is the change
\* to revoked made by revoke_certificate.
C30_StatusIssuedOrRevoked ==
    /\ [](\A i \in DOMAIN certificates :
             certificates[i].status \in {"issued", "revoked"})
    /\ [][\A i \in DOMAIN certificates \cap DOMAIN certificates' :
             certificates'[i].status # certificates[i].status =>
                /\ certificates'[i].status = "revoked"
                /\ \E user \in Users, reason \in Reasons :
                      revoke_certificate(user, i, reason)]_vars

C30_Witness ==
    \E i \in DOMAIN certificates, j \in DOMAIN certificates :
       /\ certificates[i].status = "revoked"
       /\ certificates[j].status = "issued"

====
